---- MODULE Spec2Model ----
(***************************************************************************)
(* Land Records BackendAPIService (Node.js/Express), index.js.             *)
(*                                                                         *)
(* The in-memory stores are the state; every Express route is one action  *)
(* that runs the RBAC middleware and then the whole handler, with the     *)
(* request (Authorization header and body) as the action's parameters.    *)
(* Requests are served one at a time: res holds the response of the       *)
(* request being served until it has gone out, and is Idle in between.    *)
(*                                                                         *)
(* JavaScript values: `undefined` strings are the value Undefined; a      *)
(* `documents` or `amount` body field is a record carrying its typeof.    *)
(* uuidv4() returns the next unused natural number.  Timestamps (date,    *)
(* at, ts) are left out.                                                  *)
(***************************************************************************)
EXTENDS Integers, Sequences, FiniteSets, TLC

VARIABLES users, plots, applications, notifications, payments, documents,
          tokens, uuidCount, res

vars == <<users, plots, applications, notifications, payments, documents,
          tokens, uuidCount, res>>

stores == <<users, plots, applications, notifications, payments, documents>>

(* ---------------- bounds ---------------- *)

\* uuidv4() is called at most MaxUuid times in a run
MaxUuid == 8
\* at most MaxTokens distinct tokens are issued by login
MaxTokens == 2
\* at most MaxHistory status updates are made to one application
MaxHistory == 2

(* ---------------- values ---------------- *)

Undefined == "<undefined>"
Null == "<null>"

DEMO_CITIZEN_EMAIL == "citizen@example.com"
DEMO_OFFICER_EMAIL == "officer@gov.in"
DEMO_ADMIN_EMAIL == "admin@gov.in"
NEW_EMAIL == "new@example.com"

SeedUsers ==
  << [id |-> 1, name |-> "Demo Citizen", email |-> DEMO_CITIZEN_EMAIL,
      password |-> "citizenpass", role |-> "citizen", language |-> "en"],
     [id |-> 2, name |-> "Land Officer", email |-> DEMO_OFFICER_EMAIL,
      password |-> "officerpass", role |-> "officer", language |-> "en"],
     [id |-> 3, name |-> "System Admin", email |-> DEMO_ADMIN_EMAIL,
      password |-> "adminpass", role |-> "admin", language |-> "en"] >>

SeedPlots ==
  << [plotId |-> "PLOT123", currentOwnerEmail |-> DEMO_CITIZEN_EMAIL,
      type |-> "agricultural", status |-> "active"] >>

\* truthiness of a string-or-undefined body field
Truthy(s) == s # Undefined /\ s # ""

\* truthiness of a body field carrying its typeof: an array is always truthy
TruthyValue(v) ==
  CASE v.type = "undefined" -> FALSE
    [] v.type = "string" -> v.items # <<>>
    [] v.type = "array" -> TRUE

NoPayload == [id |-> 0, role |-> "none", email |-> ""]

\* Authorization headers a request can carry: a token issued by login, ...
Auths == {[kind |-> "token", payload |-> p] : p \in tokens}

\* the language switch is exercised by the callers that are citizens
CitizenAuths == {a \in Auths : a.payload.role = "citizen"}

\* ... none, or a token that fails jwt.verify (forged or expired)
NoAuths ==
  {[kind |-> "none", payload |-> NoPayload],
   [kind |-> "invalid", payload |-> NoPayload]}

(* ---------------- request bodies ---------------- *)

NoDocuments == [type |-> "undefined", items |-> <<>>]
EmptyString == [type |-> "string", items |-> <<>>]
EmptyArray == [type |-> "array", items |-> <<>>]
OneDocument == [type |-> "array", items |-> <<"deed.pdf">>]

SubmitBody(applicationType, plotId, docLinks) ==
  [applicationType |-> applicationType, plotId |-> plotId, documents |-> docLinks,
   reason |-> Undefined]

\* submissions: valid ones, and ones failing one or several of the checks
SubmitBodies ==
  {SubmitBody(t, "PLOT123", OneDocument) :
     t \in {"mutation", "correction", "conversion", "partition", Undefined, ""}}
  \cup {SubmitBody("mutation", p, OneDocument) : p \in {Undefined, "", "PLOT999"}}
  \cup {SubmitBody("mutation", "PLOT123", d) : d \in {NoDocuments, EmptyString, EmptyArray}}
  \cup {SubmitBody("partition", "PLOT999", d) : d \in {NoDocuments, OneDocument}}
  \cup {SubmitBody(Undefined, "PLOT999", OneDocument),
        SubmitBody("partition", "", OneDocument)}

RegisterBodies ==
  [name : {"New User"}, email : {NEW_EMAIL}, password : {"newpass"},
   language : {Undefined, "hi"}]
  \cup [name : {Undefined, "New User"}, email : {"", DEMO_CITIZEN_EMAIL},
        password : {"newpass"}, language : {Undefined}]
  \cup [name : {"New User"}, email : {NEW_EMAIL}, password : {Undefined},
        language : {Undefined}]

LoginBodies ==
  { [email |-> DEMO_CITIZEN_EMAIL, password |-> "citizenpass"],
    [email |-> DEMO_OFFICER_EMAIL, password |-> "officerpass"],
    [email |-> DEMO_ADMIN_EMAIL, password |-> "adminpass"],
    [email |-> NEW_EMAIL, password |-> "newpass"],
    [email |-> DEMO_CITIZEN_EMAIL, password |-> "adminpass"] }

\* an id no uuidv4() call returns, and the id of a request that names none
UnknownId == -1
AbsentId == 0
ApplicationIdInputs ==
  {AbsentId, UnknownId} \cup {applications[i].id : i \in DOMAIN applications}

StatusBodies == [status : {"submitted", "approved"}, remarks : {"verified"}]

NoAmount == [type |-> "undefined", value |-> 0]
PaymentBodies ==
  [applicationId : ApplicationIdInputs,
   amount : {NoAmount, [type |-> "number", value |-> 500]}]

LanguageBodies == [language : {"hi", "fr"}]

UploadBodies == [file : {Undefined, "deed.pdf"}]

(* ---------------- helpers ---------------- *)

SelectIdx(s, Test(_)) == {i \in DOMAIN s : Test(s[i])}

\* Array.prototype.find: index of the first element passing the test, 0 if none
FindIdx(s, Test(_)) ==
  IF SelectIdx(s, Test) = {} THEN 0
  ELSE CHOOSE i \in SelectIdx(s, Test) : \A j \in SelectIdx(s, Test) : i <= j

Response(op, status, error, data) ==
  [op |-> op, status |-> status, error |-> error, data |-> data]

\* no request is being served
Idle == Response("idle", 0, "", Null)

\* a mutation of authorizeRoles: every authenticated role is let through
authorizeRoles_AnyRole(op, auth, allowedRoles) ==
  IF auth.kind = "none" THEN Response(op, 401, "Missing token", Null)
  ELSE IF auth.kind = "invalid" THEN Response(op, 401, "Invalid or expired token", Null)
  ELSE Response(op, 0, "", Null)

\* RBAC middleware: status 0 when next() is called, else the answer it sends
authorizeRoles(op, auth, allowedRoles) ==
  IF auth.kind = "none" THEN Response(op, 401, "Missing token", Null)
  ELSE IF auth.kind = "invalid" THEN Response(op, 401, "Invalid or expired token", Null)
  ELSE IF auth.payload.role \notin allowedRoles THEN Response(op, 403, "Access denied", Null)
  ELSE Response(op, 0, "", Null)

\* notifications.push({id, toUserId, message, ts})
sendNotification(store, id, toUserId, message) ==
  Append(store, [id |-> id, toUserId |-> toUserId, message |-> message])

Init ==
  /\ users = SeedUsers
  /\ plots = SeedPlots
  /\ applications = <<>>
  /\ notifications = <<>>
  /\ payments = <<>>
  /\ documents = <<>>
  /\ tokens = {}
  /\ uuidCount = 3
  /\ res = Idle

(* ---------------- POST /api/register ---------------- *)

NewUser(id, body) ==
  [id |-> id, name |-> body.name, email |-> body.email, password |-> body.password,
   role |-> "citizen",
   language |-> IF Truthy(body.language) THEN body.language ELSE "en"]

\* a mutation of PostRegister: the email is not looked up in the user store
PostRegister_NoDuplicateCheck(body) ==
  IF ~Truthy(body.name) \/ ~Truthy(body.email) \/ ~Truthy(body.password)
  THEN /\ res' = Response("register", 400, "Missing required fields", Null)
       /\ UNCHANGED <<stores, tokens, uuidCount>>
  ELSE /\ uuidCount + 2 <= MaxUuid
       /\ users' = Append(users, NewUser(uuidCount + 1, body))
       /\ notifications' = sendNotification(notifications, uuidCount + 2, uuidCount + 1,
                                            "Registration successful. Welcome!")
       /\ uuidCount' = uuidCount + 2
       /\ res' = Response("register", 201, "", Null)
       /\ UNCHANGED <<plots, applications, payments, documents, tokens>>

PostRegister(body) ==
  IF ~Truthy(body.name) \/ ~Truthy(body.email) \/ ~Truthy(body.password)
  THEN /\ res' = Response("register", 400, "Missing required fields", Null)
       /\ UNCHANGED <<stores, tokens, uuidCount>>
  ELSE IF \E i \in DOMAIN users : users[i].email = body.email
  THEN /\ res' = Response("register", 409, "User already exists", Null)
       /\ UNCHANGED <<stores, tokens, uuidCount>>
  ELSE /\ uuidCount + 2 <= MaxUuid
       /\ users' = Append(users, NewUser(uuidCount + 1, body))
       /\ notifications' = sendNotification(notifications, uuidCount + 2, uuidCount + 1,
                                            "Registration successful. Welcome!")
       /\ uuidCount' = uuidCount + 2
       /\ res' = Response("register", 201, "", Null)
       /\ UNCHANGED <<plots, applications, payments, documents, tokens>>

Register ==
  /\ res = Idle
  /\ \E body \in RegisterBodies : PostRegister(body)

(* ---------------- POST /api/login ---------------- *)

PostLogin(body) ==
  LET Match(u) == u.email = body.email /\ u.password = body.password
      i == FindIdx(users, Match)
  IN /\ IF i = 0
        THEN /\ res' = Response("login", 401, "Invalid credentials", Null)
             /\ UNCHANGED tokens
        ELSE LET payload == [id |-> users[i].id, role |-> users[i].role,
                             email |-> users[i].email]
             IN /\ Cardinality(tokens \cup {payload}) <= MaxTokens
                /\ tokens' = tokens \cup {payload}
                /\ res' = Response("login", 200, "", payload)
     /\ UNCHANGED <<stores, uuidCount>>

Login ==
  /\ res = Idle
  /\ \E body \in LoginBodies : PostLogin(body)

(* ---------------- GET /api/applications ---------------- *)

\* a mutation of ApplicationsFor: no filter for citizens
ApplicationsFor_Unfiltered(user) == applications

\* Citizens: own apps | Officer/Admin: all
ApplicationsFor(user) ==
  IF user.role = "citizen"
  THEN SelectSeq(applications, LAMBDA a : a.applicantEmail = user.email)
  ELSE applications

GetApplications(auth) ==
  LET gate == authorizeRoles("listApplications", auth, {"citizen", "officer", "admin"})
  IN /\ res' = IF gate.status # 0 THEN gate
               ELSE Response("listApplications", 200, "", ApplicationsFor(auth.payload))
     /\ UNCHANGED <<stores, tokens, uuidCount>>

ListApplications ==
  /\ res = Idle
  /\ \E auth \in Auths \cup NoAuths : GetApplications(auth)

(* ---------------- POST /api/applications ---------------- *)

MissingFields(body) ==
  ~Truthy(body.applicationType) \/ ~Truthy(body.plotId) \/ ~TruthyValue(body.documents)

\* a mutation of SupportedType: every type is accepted
SupportedType_Any(applicationType) == TRUE

SupportedType(applicationType) ==
  applicationType \in {"mutation", "correction", "conversion"}

\* a mutation of FindOwnedPlot: the owner is not compared
FindOwnedPlot_AnyOwner(plotId, email) ==
  FindIdx(plots, LAMBDA p : p.plotId = plotId)

\* plots.find(p => p.plotId === plotId && p.currentOwnerEmail === req.user.email)
FindOwnedPlot(plotId, email) ==
  FindIdx(plots, LAMBDA p : p.plotId = plotId /\ p.currentOwnerEmail = email)

\* a mutation of NewApplication: the application starts out as already paid
NewApplication_StartsPaid(id, user, body) ==
  [id |-> id,
   applicationType |-> body.applicationType,
   applicant |-> Undefined,
   applicantEmail |-> user.email,
   plotId |-> body.plotId,
   applicationStatus |-> "submitted",
   documents |-> body.documents,
   reason |-> IF Truthy(body.reason) THEN body.reason ELSE Null,
   officerAssigned |-> Null,
   paymentStatus |-> "completed",
   history |-> <<>>]

\* the jwt payload carries no name, so `applicant` is undefined
NewApplication(id, user, body) ==
  [id |-> id,
   applicationType |-> body.applicationType,
   applicant |-> Undefined,
   applicantEmail |-> user.email,
   plotId |-> body.plotId,
   applicationStatus |-> "submitted",
   documents |-> body.documents,
   reason |-> IF Truthy(body.reason) THEN body.reason ELSE Null,
   officerAssigned |-> Null,
   paymentStatus |-> "pending",
   history |-> <<>>]

\* a mutation of PostApplication: the application is stored before the
\* ownership check
PostApplication_PushesFirst(auth, body) ==
  LET op == "submitApplication"
      gate == authorizeRoles(op, auth, {"citizen"})
      user == auth.payload
  IN IF gate.status # 0
     THEN res' = gate /\ UNCHANGED <<stores, tokens, uuidCount>>
     ELSE IF MissingFields(body)
     THEN /\ res' = Response(op, 400, "Missing fields", Null)
          /\ UNCHANGED <<stores, tokens, uuidCount>>
     ELSE IF ~SupportedType(body.applicationType)
     THEN /\ res' = Response(op, 400, "Invalid application type", Null)
          /\ UNCHANGED <<stores, tokens, uuidCount>>
     ELSE IF FindOwnedPlot(body.plotId, user.email) = 0
     THEN /\ uuidCount + 1 <= MaxUuid
          /\ applications' = Append(applications, NewApplication(uuidCount + 1, user, body))
          /\ uuidCount' = uuidCount + 1
          /\ res' = Response(op, 400, "Plot does not belong to you", Null)
          /\ UNCHANGED <<users, plots, notifications, payments, documents, tokens>>
     ELSE /\ uuidCount + 2 <= MaxUuid
          /\ applications' = Append(applications, NewApplication(uuidCount + 1, user, body))
          /\ notifications' =
               sendNotification(notifications, uuidCount + 2, user.id,
                 "Application submitted successfully. Please complete payment.")
          /\ uuidCount' = uuidCount + 2
          /\ res' = Response(op, 201, "", NewApplication(uuidCount + 1, user, body))
          /\ UNCHANGED <<users, plots, payments, documents, tokens>>

PostApplication(auth, body) ==
  LET op == "submitApplication"
      gate == authorizeRoles(op, auth, {"citizen"})
      user == auth.payload
  IN IF gate.status # 0
     THEN res' = gate /\ UNCHANGED <<stores, tokens, uuidCount>>
     ELSE IF MissingFields(body)
     THEN /\ res' = Response(op, 400, "Missing fields", Null)
          /\ UNCHANGED <<stores, tokens, uuidCount>>
     ELSE IF ~SupportedType(body.applicationType)
     THEN /\ res' = Response(op, 400, "Invalid application type", Null)
          /\ UNCHANGED <<stores, tokens, uuidCount>>
     ELSE IF FindOwnedPlot(body.plotId, user.email) = 0
     THEN /\ res' = Response(op, 400, "Plot does not belong to you", Null)
          /\ UNCHANGED <<stores, tokens, uuidCount>>
     ELSE /\ uuidCount + 2 <= MaxUuid
          /\ applications' = Append(applications, NewApplication(uuidCount + 1, user, body))
          /\ notifications' =
               sendNotification(notifications, uuidCount + 2, user.id,
                 "Application submitted successfully. Please complete payment.")
          /\ uuidCount' = uuidCount + 2
          /\ res' = Response(op, 201, "", NewApplication(uuidCount + 1, user, body))
          /\ UNCHANGED <<users, plots, payments, documents, tokens>>

SubmitApplication ==
  /\ res = Idle
  /\ \E auth \in Auths, body \in SubmitBodies : PostApplication(auth, body)

(* ---------------- POST /api/applications/:id/status ---------------- *)

\* a mutation of FindApplication: the first application, whatever its id
FindApplication_First(appId) == IF applications = <<>> THEN 0 ELSE 1

\* applications.find(a => a.id === appId)
FindApplication(appId) == FindIdx(applications, LAMBDA a : a.id = appId)

HistoryRecord(role, body) == [by |-> role, status |-> body.status, remarks |-> body.remarks]

\* a mutation of UpdatedApplication: the history is replaced, not appended to
UpdatedApplication_ReplacesHistory(app, role, body) ==
  [app EXCEPT !.applicationStatus = body.status,
              !.history = <<HistoryRecord(role, body)>>]

\* app.applicationStatus = status; app.history.push({by, at, status, remarks})
\* (`if (!app.history) app.history = []` never fires: history is always an array)
UpdatedApplication(app, role, body) ==
  [app EXCEPT !.applicationStatus = body.status,
              !.history = Append(@, HistoryRecord(role, body))]

FindUserByEmail(email) == FindIdx(users, LAMBDA u : u.email = email)

\* a mutation of PostStatus: the caller is recorded as the assigned officer
PostStatus_AssignsOfficer(auth, appId, body) ==
  LET op == "updateApplicationStatus"
      gate == authorizeRoles(op, auth, {"officer", "admin"})
      i == FindApplication(appId)
      app == [UpdatedApplication(applications[i], auth.payload.role, body)
                EXCEPT !.officerAssigned = auth.payload.email]
      j == FindUserByEmail(applications[i].applicantEmail)
  IN IF gate.status # 0
     THEN res' = gate /\ UNCHANGED <<stores, tokens, uuidCount>>
     ELSE IF i = 0
     THEN /\ res' = Response(op, 404, "Not found", Null)
          /\ UNCHANGED <<stores, tokens, uuidCount>>
     ELSE /\ Len(applications[i].history) < MaxHistory
          /\ applications' = [applications EXCEPT ![i] = app]
          /\ IF j = 0
             THEN /\ res' = Response(op, 500, "TypeError", Null)
                  /\ UNCHANGED <<notifications, uuidCount>>
             ELSE /\ uuidCount + 1 <= MaxUuid
                  /\ notifications' =
                       sendNotification(notifications, uuidCount + 1, users[j].id,
                                        "Application status updated to: " \o body.status)
                  /\ uuidCount' = uuidCount + 1
                  /\ res' = Response(op, 200, "", app)
          /\ UNCHANGED <<users, plots, payments, documents, tokens>>

\* users.find(...) is undefined when the applicant is no longer a user: reading
\* .id throws after the application was changed, and Express answers 500
PostStatus(auth, appId, body) ==
  LET op == "updateApplicationStatus"
      gate == authorizeRoles(op, auth, {"officer", "admin"})
      i == FindApplication(appId)
      app == UpdatedApplication(applications[i], auth.payload.role, body)
      j == FindUserByEmail(applications[i].applicantEmail)
  IN IF gate.status # 0
     THEN res' = gate /\ UNCHANGED <<stores, tokens, uuidCount>>
     ELSE IF i = 0
     THEN /\ res' = Response(op, 404, "Not found", Null)
          /\ UNCHANGED <<stores, tokens, uuidCount>>
     ELSE /\ Len(applications[i].history) < MaxHistory
          /\ applications' = [applications EXCEPT ![i] = app]
          /\ IF j = 0
             THEN /\ res' = Response(op, 500, "TypeError", Null)
                  /\ UNCHANGED <<notifications, uuidCount>>
             ELSE /\ uuidCount + 1 <= MaxUuid
                  /\ notifications' =
                       sendNotification(notifications, uuidCount + 1, users[j].id,
                                        "Application status updated to: " \o body.status)
                  /\ uuidCount' = uuidCount + 1
                  /\ res' = Response(op, 200, "", app)
          /\ UNCHANGED <<users, plots, payments, documents, tokens>>

UpdateApplicationStatus ==
  /\ res = Idle
  /\ \E auth \in Auths, appId \in ApplicationIdInputs \ {AbsentId}, body \in StatusBodies :
       PostStatus(auth, appId, body)

(* ---------------- POST /api/payments/initiate ---------------- *)

InvalidPaymentDetails(body) ==
  body.applicationId = AbsentId \/ body.amount.type # "number"

\* a mutation of FindOwnApplication: the first application, whoever applied
FindOwnApplication_First(applicationId, email) == IF applications = <<>> THEN 0 ELSE 1

\* applications.find(a => a.id === applicationId && a.applicantEmail === req.user.email)
FindOwnApplication(applicationId, email) ==
  FindIdx(applications, LAMBDA a : a.id = applicationId /\ a.applicantEmail = email)

\* a mutation of AlreadyPaid: the check is missing
AlreadyPaid_Never(app) == FALSE

\* a mutation of AlreadyPaid: a reviewed application counts as paid
AlreadyPaid_OnceReviewed(app) == app.paymentStatus = "completed" \/ app.history # <<>>

AlreadyPaid(app) == app.paymentStatus = "completed"

\* a mutation of MarkPaid: the application is left as it was
MarkPaid_Forgotten(app) == app

\* app.paymentStatus = "completed"
MarkPaid(app) == [app EXCEPT !.paymentStatus = "completed"]

PaymentRecord(paymentId, user, body) ==
  [id |-> paymentId, applicationId |-> body.applicationId, amount |-> body.amount.value,
   status |-> "initiated", paidBy |-> user.email]

\* a mutation of PostPayment: the Payment is recorded before the already-paid check
PostPayment_RecordsFirst(auth, body) ==
  LET op == "initiatePayment"
      gate == authorizeRoles(op, auth, {"citizen"})
      user == auth.payload
      i == FindOwnApplication(body.applicationId, user.email)
  IN IF gate.status # 0
     THEN res' = gate /\ UNCHANGED <<stores, tokens, uuidCount>>
     ELSE IF InvalidPaymentDetails(body)
     THEN /\ res' = Response(op, 400, "Missing or invalid payment details", Null)
          /\ UNCHANGED <<stores, tokens, uuidCount>>
     ELSE IF i = 0
     THEN /\ res' = Response(op, 404, "Application not found", Null)
          /\ UNCHANGED <<stores, tokens, uuidCount>>
     ELSE IF AlreadyPaid(applications[i])
     THEN /\ uuidCount + 1 <= MaxUuid
          /\ payments' = Append(payments, PaymentRecord(uuidCount + 1, user, body))
          /\ uuidCount' = uuidCount + 1
          /\ res' = Response(op, 409, "Already paid", Null)
          /\ UNCHANGED <<users, plots, applications, notifications, documents, tokens>>
     ELSE /\ uuidCount + 2 <= MaxUuid
          /\ payments' = Append(payments, PaymentRecord(uuidCount + 1, user, body))
          /\ applications' = [applications EXCEPT ![i] = MarkPaid(@)]
          /\ notifications' =
               sendNotification(notifications, uuidCount + 2, user.id,
                 "Payment successful for application: " \o ToString(body.applicationId))
          /\ uuidCount' = uuidCount + 2
          /\ res' = Response(op, 200, "",
                             [paymentId |-> uuidCount + 1, status |-> "completed"])
          /\ UNCHANGED <<users, plots, documents, tokens>>

PostPayment(auth, body) ==
  LET op == "initiatePayment"
      gate == authorizeRoles(op, auth, {"citizen"})
      user == auth.payload
      i == FindOwnApplication(body.applicationId, user.email)
  IN IF gate.status # 0
     THEN res' = gate /\ UNCHANGED <<stores, tokens, uuidCount>>
     ELSE IF InvalidPaymentDetails(body)
     THEN /\ res' = Response(op, 400, "Missing or invalid payment details", Null)
          /\ UNCHANGED <<stores, tokens, uuidCount>>
     ELSE IF i = 0
     THEN /\ res' = Response(op, 404, "Application not found", Null)
          /\ UNCHANGED <<stores, tokens, uuidCount>>
     ELSE IF AlreadyPaid(applications[i])
     THEN /\ res' = Response(op, 409, "Already paid", Null)
          /\ UNCHANGED <<stores, tokens, uuidCount>>
     ELSE /\ uuidCount + 2 <= MaxUuid
          /\ payments' = Append(payments, PaymentRecord(uuidCount + 1, user, body))
          /\ applications' = [applications EXCEPT ![i] = MarkPaid(@)]
          /\ notifications' =
               sendNotification(notifications, uuidCount + 2, user.id,
                 "Payment successful for application: " \o ToString(body.applicationId))
          /\ uuidCount' = uuidCount + 2
          /\ res' = Response(op, 200, "",
                             [paymentId |-> uuidCount + 1, status |-> "completed"])
          /\ UNCHANGED <<users, plots, documents, tokens>>

InitiatePayment ==
  /\ res = Idle
  /\ \E auth \in Auths, body \in PaymentBodies : PostPayment(auth, body)

(* ---------------- POST /api/documents/upload ---------------- *)

DocumentRecord(docId, user, body) ==
  [id |-> docId, fileName |-> body.file, uploadedBy |-> user.email]

PostUpload(auth, body) ==
  LET op == "uploadDocument"
      gate == authorizeRoles(op, auth, {"citizen", "officer", "admin"})
      user == auth.payload
  IN IF gate.status # 0
     THEN res' = gate /\ UNCHANGED <<stores, tokens, uuidCount>>
     ELSE IF ~Truthy(body.file)
     THEN /\ res' = Response(op, 400, "No file uploaded", Null)
          /\ UNCHANGED <<stores, tokens, uuidCount>>
     ELSE /\ uuidCount + 2 <= MaxUuid
          /\ documents' = Append(documents, DocumentRecord(uuidCount + 1, user, body))
          /\ notifications' = sendNotification(notifications, uuidCount + 2, user.id,
                                               "Document uploaded successfully")
          /\ uuidCount' = uuidCount + 2
          /\ res' = Response(op, 200, "", [documentId |-> uuidCount + 1])
          /\ UNCHANGED <<users, plots, applications, payments, tokens>>

UploadDocument ==
  /\ res = Idle
  /\ \E auth \in Auths, body \in UploadBodies : PostUpload(auth, body)

(* ---------------- GET /api/notifications ---------------- *)

FindUserById(id) == FindIdx(users, LAMBDA u : u.id = id)

NotificationsFor(userId) == SelectSeq(notifications, LAMBDA n : n.toUserId = userId)

\* users.find(...) is undefined for a caller whose record is gone: reading
\* user.id throws and Express answers 500
GetNotifications(auth) ==
  LET op == "listNotifications"
      gate == authorizeRoles(op, auth, {"citizen", "officer", "admin"})
      i == FindUserById(auth.payload.id)
  IN /\ res' = IF gate.status # 0 THEN gate
               ELSE IF i = 0 THEN Response(op, 500, "TypeError", Null)
               ELSE Response(op, 200, "", NotificationsFor(users[i].id))
     /\ UNCHANGED <<stores, tokens, uuidCount>>

ListNotifications ==
  /\ res = Idle
  /\ \E auth \in Auths : GetNotifications(auth)

(* ---------------- POST /api/sample/reset ---------------- *)

\* while (arr.length > n) arr.pop()
PopTo(arr, n) == IF Len(arr) > n THEN SubSeq(arr, 1, n) ELSE arr

\* a mutation of PostReset: the payment ledger is not emptied
PostReset_KeepsPayments(auth) ==
  LET op == "reset"
      gate == authorizeRoles(op, auth, {"admin"})
  IN IF gate.status # 0
     THEN res' = gate /\ UNCHANGED <<stores, tokens, uuidCount>>
     ELSE /\ users' = PopTo(users, 3)
          /\ plots' = PopTo(plots, 1)
          /\ applications' = <<>>
          /\ notifications' = <<>>
          /\ documents' = <<>>
          /\ res' = Response(op, 200, "", Null)
          /\ UNCHANGED <<payments, tokens, uuidCount>>

PostReset(auth) ==
  LET op == "reset"
      gate == authorizeRoles(op, auth, {"admin"})
  IN IF gate.status # 0
     THEN res' = gate /\ UNCHANGED <<stores, tokens, uuidCount>>
     ELSE /\ users' = PopTo(users, 3)
          /\ plots' = PopTo(plots, 1)
          /\ applications' = <<>>
          /\ notifications' = <<>>
          /\ payments' = <<>>
          /\ documents' = <<>>
          /\ res' = Response(op, 200, "", Null)
          /\ UNCHANGED <<tokens, uuidCount>>

Reset ==
  /\ res = Idle
  /\ \E auth \in Auths : PostReset(auth)

(* ---------------- POST /api/user/language ---------------- *)

\* user is undefined for a caller whose record is gone: the assignment throws
PostLanguage(auth, body) ==
  LET op == "setLanguage"
      gate == authorizeRoles(op, auth, {"citizen", "officer", "admin"})
      i == FindUserById(auth.payload.id)
  IN IF gate.status # 0
     THEN res' = gate /\ UNCHANGED <<stores, tokens, uuidCount>>
     ELSE IF body.language \notin {"en", "hi"}
     THEN /\ res' = Response(op, 400, "Unsupported lang", Null)
          /\ UNCHANGED <<stores, tokens, uuidCount>>
     ELSE IF i = 0
     THEN /\ res' = Response(op, 500, "TypeError", Null)
          /\ UNCHANGED <<stores, tokens, uuidCount>>
     ELSE /\ users' = [users EXCEPT ![i].language = body.language]
          /\ res' = Response(op, 200, "", [language |-> body.language])
          /\ UNCHANGED <<plots, applications, notifications, payments, documents,
                         tokens, uuidCount>>

SetLanguage ==
  /\ res = Idle
  /\ \E auth \in CitizenAuths, body \in LanguageBodies : PostLanguage(auth, body)

(* ---------------- the server loop ---------------- *)

\* the response has gone out; the next request can be served
ResponseSent ==
  /\ res # Idle
  /\ res' = Idle
  /\ UNCHANGED <<stores, tokens, uuidCount>>

Next ==
  \/ Register
  \/ Login
  \/ ListApplications
  \/ SubmitApplication
  \/ UpdateApplicationStatus
  \/ InitiatePayment
  \/ UploadDocument
  \/ ListNotifications
  \/ Reset
  \/ SetLanguage
  \/ ResponseSent

Spec == Init /\ [][Next]_vars

(***************************************************************************)
(* Properties                                                              *)
(***************************************************************************)

\* what a step appended to a store that only grew by it
AppendedOne(old, new) == Len(new) = Len(old) + 1 /\ SubSeq(new, 1, Len(old)) = old

Last(s) == s[Len(s)]

IsCitizen(auth) == auth.kind = "token" /\ auth.payload.role = "citizen"

IsOfficerOrAdmin(auth) == auth.kind = "token" /\ auth.payload.role \in {"officer", "admin"}

\* the caller's email is the currentOwnerEmail of a plot with this plotId
OwnsPlot(email, plotId) ==
  \E i \in DOMAIN plots : plots[i].plotId = plotId /\ plots[i].currentOwnerEmail = email

\* the ids of the users registered under an email
UserIdsOf(email) == {users[i].id : i \in {j \in DOMAIN users : users[j].email = email}}

\* the Payment records of an application
PaymentsOf(ledger, id) == {k \in DOMAIN ledger : ledger[k].applicationId = id}

\* the spec's error taxonomy, read off the status and message of a response
ErrorKind(r) ==
  CASE r.status < 400 -> "none"
    [] r.status = 400 /\ r.error = "Plot does not belong to you" -> "AuthorizationError"
    [] r.status = 400 -> "ValidationError"
    [] r.status \in {401, 403} -> "AuthorizationError"
    [] r.status = 404 -> "NotFoundError"
    [] r.status = 409 -> "ConflictError"
    [] OTHER -> "InternalError"

\* C1: a valid submission (citizen caller, one of the three application
\* types, a plot owned by the caller, documents supplied) answers 201, adds
\* exactly one Application to the store, with applicationStatus "submitted",
\* paymentStatus "pending", officerAssigned null and an empty history, and
\* emits exactly one Notification, addressed to the applicant.
C1_ValidSubmission ==
  [][res'.op = "submitApplication" =>
     \A auth \in Auths, body \in SubmitBodies :
       ( /\ IsCitizen(auth)
         /\ body.applicationType \in {"mutation", "correction", "conversion"}
         /\ OwnsPlot(auth.payload.email, body.plotId)
         /\ body.documents = OneDocument
         /\ PostApplication(auth, body) )
       => /\ res'.status = 201
          /\ AppendedOne(applications, applications')
          /\ Last(applications').applicationType = body.applicationType
          /\ Last(applications').plotId = body.plotId
          /\ Last(applications').applicantEmail = auth.payload.email
          /\ Last(applications').documents = body.documents
          /\ Last(applications').applicationStatus = "submitted"
          /\ Last(applications').paymentStatus = "pending"
          /\ Last(applications').officerAssigned = Null
          /\ Last(applications').history = <<>>
          /\ res'.data = Last(applications')
          /\ AppendedOne(notifications, notifications')
          /\ UserIdsOf(Last(applications').applicantEmail)
               = {Last(notifications').toUserId}
          /\ UNCHANGED <<users, plots, payments, documents>>
    ]_vars

\* a second submission was just accepted: the new application and its
\* notification are the last entries of their stores
C1_Witness ==
  /\ res.op = "submitApplication" /\ res.status = 201
  /\ Len(applications) = 2
  /\ Last(applications) = res.data
  /\ Last(applications).applicationType = "correction"
  /\ Last(applications).paymentStatus = "pending"
  /\ Last(notifications).toUserId = 1

C3_PayTwice ==
  [][ /\ res'.op = "initiatePayment" =>
         \A auth \in Auths, body \in PaymentBodies :
           ( /\ IsCitizen(auth)
             /\ \E i \in DOMAIN applications :
                  /\ applications[i].id = body.applicationId
                  /\ applications[i].applicantEmail = auth.payload.email
             /\ PostPayment(auth, body) )
           => IF PaymentsOf(payments, body.applicationId) # {}
              THEN /\ res'.status >= 400
                   /\ body.amount.type = "number"
                        => res'.status = 409 /\ ErrorKind(res') = "ConflictError"
                   /\ UNCHANGED <<applications, payments, notifications>>
              ELSE body.amount.type = "number"
                     => /\ res'.status = 200
                        /\ \E i \in DOMAIN applications' :
                             /\ applications'[i].id = body.applicationId
                             /\ applications'[i].paymentStatus = "completed"
                        /\ Cardinality(PaymentsOf(payments', body.applicationId)) = 1
      /\ \A i \in DOMAIN applications, j \in DOMAIN applications' :
           ( /\ applications'[j].id = applications[i].id
             /\ PaymentsOf(payments, applications[i].id) # {} )
           => /\ applications'[j].paymentStatus = "completed"
              /\ Cardinality(PaymentsOf(payments', applications[i].id)) = 1
    ]_vars

\* payment, then a status update, then a second payment call that was just
\* refused
C3_Witness ==
  /\ res.op = "initiatePayment" /\ res.status = 409
  /\ Len(payments) = 1
  /\ Len(applications) = 1
  /\ applications[1].paymentStatus = "completed"
  /\ Len(applications[1].history) = 1
  /\ Len(notifications) = 3
  /\ notifications[3].message = "Application status updated to: approved"

\* no Payment record exists for an application whose paymentStatus is pending
NoPaymentWhilePending ==
  \A i \in DOMAIN applications :
    applications[i].paymentStatus = "pending"
      => PaymentsOf(payments, applications[i].id) = {}

\* C4: a successful payment completion adds exactly one Payment record, the
\* only one of its application, and exactly one Notification addressed to
\* the applicant, and turns the application's paymentStatus from pending to
\* completed; in no reachable state does a Payment record exist for an
\* application that is still pending.
C4_PaymentAtomic ==
  /\ []NoPaymentWhilePending
  /\ [][(res'.op = "initiatePayment" /\ res'.status = 200) =>
        /\ AppendedOne(payments, payments')
        /\ AppendedOne(notifications, notifications')
        /\ res'.data.paymentId = Last(payments').id
        /\ \E i \in DOMAIN applications :
             /\ applications[i].id = Last(payments').applicationId
             /\ applications[i].paymentStatus = "pending"
             /\ applications' = [applications EXCEPT ![i].paymentStatus = "completed"]
             /\ PaymentsOf(payments', applications[i].id) = {Len(payments')}
             /\ UserIdsOf(applications[i].applicantEmail) = {Last(notifications').toUserId}
             /\ Last(payments').paidBy = applications[i].applicantEmail
       ]_vars

\* an application that was reviewed first was just paid
C4_Witness ==
  /\ res.op = "initiatePayment" /\ res.status = 200
  /\ Len(applications) = 1
  /\ applications[1].paymentStatus = "completed"
  /\ applications[1].applicationStatus = "approved"
  /\ Len(payments) = 1 /\ payments[1].applicationId = applications[1].id
  /\ res.data.paymentId = payments[1].id
  /\ Len(notifications) = 3 /\ Last(notifications).toUserId = 1

\* C5: every Payment record in the ledger has status "completed".
C5_PaymentsCompleted ==
  \A k \in DOMAIN payments : payments[k].status = "completed"

\* C6: the listing answered to a citizen holds exactly the Applications of
\* the store whose applicantEmail is the caller's email, the listing
\* answered to an officer or admin is the whole store, and listing changes
\* no store.
C6_Listing ==
  [][res'.op = "listApplications" =>
     /\ UNCHANGED <<stores, tokens, uuidCount>>
     /\ \A auth \in Auths :
          (auth.kind = "token" /\ GetApplications(auth))
          => /\ res'.status = 200
             /\ IF auth.payload.role = "citizen"
                THEN /\ \A k \in DOMAIN res'.data :
                          res'.data[k].applicantEmail = auth.payload.email
                     /\ \A i \in DOMAIN applications :
                          applications[i].applicantEmail = auth.payload.email
                            => \E k \in DOMAIN res'.data : res'.data[k] = applications[i]
                     /\ Len(res'.data) =
                          Cardinality({i \in DOMAIN applications :
                             applications[i].applicantEmail = auth.payload.email})
                ELSE res'.data = applications
    ]_vars

\* a citizen without applications was just answered an empty listing while
\* the store holds another citizen's application
C6_Witness ==
  /\ res.op = "listApplications" /\ res.status = 200
  /\ res.data = <<>>
  /\ applications # <<>>

\* C7: a successful status update appends exactly one record, with the
\* caller's role, the new status and the remarks, to the history of the
\* target Application and leaves every other Application as it was; and in
\* every step, the history of an Application that stays in the store keeps
\* its old records as a prefix.
C7_HistoryAppendOnly ==
  [][ /\ (res'.op = "updateApplicationStatus" /\ res'.status = 200) =>
         \A auth \in Auths, appId \in ApplicationIdInputs, body \in StatusBodies :
           (IsOfficerOrAdmin(auth) /\ PostStatus(auth, appId, body))
           => /\ Len(applications') = Len(applications)
              /\ \A i \in DOMAIN applications :
                   IF applications[i].id = appId
                   THEN /\ AppendedOne(applications[i].history, applications'[i].history)
                        /\ Last(applications'[i].history) =
                             [by |-> auth.payload.role, status |-> body.status,
                              remarks |-> body.remarks]
                   ELSE applications'[i] = applications[i]
      /\ \A i \in DOMAIN applications, j \in DOMAIN applications' :
           applications'[j].id = applications[i].id
           => /\ Len(applications'[j].history) >= Len(applications[i].history)
              /\ SubSeq(applications'[j].history, 1, Len(applications[i].history))
                   = applications[i].history
    ]_vars

\* the second of two applications was just updated by an officer; the first
\* was never updated
C7_Witness ==
  /\ res.op = "updateApplicationStatus" /\ res.status = 200
  /\ Len(applications) = 2
  /\ applications[1].history = <<>>
  /\ applications[2].history =
       <<[by |-> "officer", status |-> "approved", remarks |-> "verified"]>>

\* C8: a status update by an officer or admin on an existing Application
\* answers 200 whatever the supplied status and the current status, leaves
\* applicationStatus equal to the supplied status and emits exactly one
\* Notification, addressed to the applicant; on an id that no Application
\* has it answers 404 and changes nothing.
C8_AnyStatus ==
  [][res'.op = "updateApplicationStatus" =>
     \A auth \in Auths, appId \in ApplicationIdInputs, body \in StatusBodies :
       (IsOfficerOrAdmin(auth) /\ appId # AbsentId /\ PostStatus(auth, appId, body))
       => IF \E i \in DOMAIN applications : applications[i].id = appId
          THEN /\ res'.status = 200
               /\ \E i \in DOMAIN applications :
                    /\ applications[i].id = appId
                    /\ applications'[i].id = appId
                    /\ applications'[i].applicationStatus = body.status
                    /\ res'.data = applications'[i]
                    /\ UserIdsOf(applications[i].applicantEmail)
                         = {Last(notifications').toUserId}
               /\ AppendedOne(notifications, notifications')
          ELSE /\ res'.status = 404
               /\ ErrorKind(res') = "NotFoundError"
               /\ UNCHANGED <<stores, tokens, uuidCount>>
    ]_vars

\* an approved application was just set back to "submitted"
C8_Witness ==
  /\ res.op = "updateApplicationStatus" /\ res.status = 200
  /\ \E i \in DOMAIN applications :
       /\ applications[i].applicationStatus = "submitted"
       /\ Len(applications[i].history) = 2
       /\ applications[i].history[1].status = "approved"
       /\ applications[i].paymentStatus = "pending"

\* C9: a citizen's submission in which applicationType, plotId or documents
\* is absent or empty (an empty documents list included) fails with
\* "Missing fields", whatever its type and plot; one with all three present
\* and a type outside mutation, correction, conversion fails with the
\* unsupported-type error, whatever its plot.
C9_MissingFieldsFirst ==
  [][res'.op = "submitApplication" =>
     \A auth \in Auths, body \in SubmitBodies :
       (IsCitizen(auth) /\ PostApplication(auth, body))
       => IF \/ body.applicationType \in {Undefined, ""}
             \/ body.plotId \in {Undefined, ""}
             \/ body.documents \in {NoDocuments, EmptyString, EmptyArray}
          THEN res'.status = 400 /\ res'.error = "Missing fields"
          ELSE body.applicationType \notin {"mutation", "correction", "conversion"}
                 => res'.status = 400 /\ res'.error = "Invalid application type"
    ]_vars

\* C10: when submitApplication, initiatePayment or updateApplicationStatus
\* answers with an error, no store has changed.
C10_NoPartialMutation ==
  [][( /\ res'.op \in {"submitApplication", "initiatePayment", "updateApplicationStatus"}
       /\ res'.status >= 400 )
     => UNCHANGED <<users, plots, applications, notifications, payments, documents>>
    ]_vars

\* a payment on a paid application was just refused; stores are not empty
C10_Witness ==
  /\ res.op = "initiatePayment" /\ ErrorKind(res) = "ConflictError"
  /\ Len(applications) = 1
  /\ Len(payments) = 1
  /\ Len(notifications) = 2

\* the RBAC middleware answered 403 and nothing changed
AccessDenied ==
  /\ res'.status = 403 /\ res'.error = "Access denied"
  /\ ErrorKind(res') = "AuthorizationError"
  /\ UNCHANGED <<stores, tokens, uuidCount>>

\* C11: a submission or a payment by an authenticated caller who is not a
\* citizen, a status update by one who is neither officer nor admin and a
\* reset by one who is not admin are answered 403 "Access denied", whatever
\* the request carries, and change nothing; so a step of one of these
\* operations that changes a store was asked for by a caller of an allowed
\* role.
C11_RoleGated ==
  [][ /\ res'.op = "submitApplication" =>
         /\ \A auth \in Auths, body \in SubmitBodies :
              (auth.payload.role # "citizen" /\ PostApplication(auth, body))
              => AccessDenied
         /\ ~UNCHANGED stores =>
              \E auth \in Auths, body \in SubmitBodies :
                auth.payload.role = "citizen" /\ PostApplication(auth, body)
      /\ res'.op = "initiatePayment" =>
         /\ \A auth \in Auths, body \in PaymentBodies :
              (auth.payload.role # "citizen" /\ PostPayment(auth, body))
              => AccessDenied
         /\ ~UNCHANGED stores =>
              \E auth \in Auths, body \in PaymentBodies :
                auth.payload.role = "citizen" /\ PostPayment(auth, body)
      /\ res'.op = "updateApplicationStatus" =>
         /\ \A auth \in Auths, appId \in ApplicationIdInputs, body \in StatusBodies :
              (auth.payload.role \notin {"officer", "admin"} /\ PostStatus(auth, appId, body))
              => AccessDenied
         /\ ~UNCHANGED stores =>
              \E auth \in Auths, appId \in ApplicationIdInputs, body \in StatusBodies :
                auth.payload.role \in {"officer", "admin"} /\ PostStatus(auth, appId, body)
      /\ res'.op = "reset" =>
         /\ \A auth \in Auths :
              (auth.payload.role # "admin" /\ PostReset(auth)) => AccessDenied
         /\ ~UNCHANGED stores =>
              \E auth \in Auths : auth.payload.role = "admin" /\ PostReset(auth)
    ]_vars

\* a citizen who has an application in the store was just refused a reset
C11_Witness ==
  /\ res.op = "reset" /\ res.status = 403
  /\ applications # <<>>
  /\ notifications # <<>>
  /\ \A p \in tokens : p.role = "citizen"

\* C12: a payment call by a citizen that names an id which no Application of
\* the caller has (no Application at all, or one of another applicant)
\* fails, with NotFoundError when the amount is a number, creates no Payment
\* and no Notification and leaves every Application, its paymentStatus
\* included, as it was.
C12_OwnApplicationOnly ==
  [][res'.op = "initiatePayment" =>
     \A auth \in Auths, body \in PaymentBodies :
       ( /\ IsCitizen(auth)
         /\ body.applicationId # AbsentId
         /\ ~\E i \in DOMAIN applications :
               /\ applications[i].id = body.applicationId
               /\ applications[i].applicantEmail = auth.payload.email
         /\ PostPayment(auth, body) )
       => /\ res'.status >= 400
          /\ body.amount.type = "number"
               => res'.status = 404 /\ ErrorKind(res') = "NotFoundError"
          /\ UNCHANGED <<applications, payments, notifications>>
    ]_vars

\* a payment call was just answered "not found" while the store holds a
\* pending application of the seed citizen and a second citizen is logged in
C12_Witness ==
  /\ res.op = "initiatePayment" /\ res.status = 404
  /\ Len(applications) = 1
  /\ applications[1].applicantEmail = DEMO_CITIZEN_EMAIL
  /\ applications[1].paymentStatus = "pending"
  /\ payments = <<>>
  /\ \E p \in tokens : p.role = "citizen" /\ p.email = NEW_EMAIL

C14_ResetRestoresDemoState ==
  [][(res'.op = "reset" /\ res'.status = 200) =>
       /\ users' = SeedUsers
       /\ plots' = SeedPlots
       /\ applications' = <<>>
       /\ notifications' = <<>>
       /\ payments' = <<>>
       /\ documents' = <<>>
    ]_vars

\* no two records of the user store carry the same email
UniqueEmails ==
  \A i, j \in DOMAIN users : users[i].email = users[j].email => i = j

\* C15: in every reachable state no two User records share an email; a
\* registration under an email that a User of the store already has is
\* rejected, with "User already exists" when name, email and password are
\* all supplied, and adds no user and no notification.
C15_UniqueEmail ==
  /\ []UniqueEmails
  /\ [][res'.op = "register" =>
        \A body \in RegisterBodies :
          ( /\ \E i \in DOMAIN users : users[i].email = body.email
            /\ PostRegister(body) )
          => /\ res'.status >= 400
             /\ (body.name \notin {Undefined, ""} /\ body.password \notin {Undefined, ""})
                  => /\ res'.status = 409 /\ res'.error = "User already exists"
                     /\ ErrorKind(res') = "ConflictError"
             /\ UNCHANGED <<stores, tokens, uuidCount>>
       ]_vars

\* registered, reset, registered again under the same email, and a third
\* registration under it was just refused
C15_Witness ==
  /\ res.op = "register" /\ res.status = 409
  /\ Len(users) = 4
  /\ users[4].email = NEW_EMAIL /\ users[4].id = 6
  /\ Len(notifications) = 1

\* C16: a status update step leaves every Application as it was except for
\* applicationStatus and history; a payment step leaves every Application
\* as it was except for paymentStatus; and in every step an Application
\* that stays in the store keeps all its other fields, changes
\* applicationStatus or history only in a status update, and changes
\* paymentStatus only in a successful payment, from pending to completed.
C16_Frames ==
  [][ /\ res'.op = "updateApplicationStatus" =>
         /\ Len(applications') = Len(applications)
         /\ \A i \in DOMAIN applications :
              applications'[i] =
                [applications[i] EXCEPT !.applicationStatus = applications'[i].applicationStatus,
                                        !.history = applications'[i].history]
      /\ res'.op = "initiatePayment" =>
         /\ Len(applications') = Len(applications)
         /\ \A i \in DOMAIN applications :
              applications'[i] =
                [applications[i] EXCEPT !.paymentStatus = applications'[i].paymentStatus]
      /\ \A i \in DOMAIN applications, j \in DOMAIN applications' :
           applications'[j].id = applications[i].id
           => /\ applications'[j] =
                   [applications[i] EXCEPT !.applicationStatus = applications'[j].applicationStatus,
                                           !.history = applications'[j].history,
                                           !.paymentStatus = applications'[j].paymentStatus]
              /\ ( \/ applications'[j].applicationStatus # applications[i].applicationStatus
                   \/ applications'[j].history # applications[i].history )
                 => res'.op = "updateApplicationStatus"
              /\ applications'[j].paymentStatus # applications[i].paymentStatus
                 => /\ res'.op = "initiatePayment" /\ res'.status = 200
                    /\ applications[i].paymentStatus = "pending"
                    /\ applications'[j].paymentStatus = "completed"
    ]_vars

\* a paid application was just approved: it is still completed, and its
\* payment left it "submitted" with an empty history
C16_Witness ==
  /\ res.op = "updateApplicationStatus" /\ res.status = 200
  /\ Len(applications) = 1
  /\ applications[1].paymentStatus = "completed"
  /\ applications[1].applicationStatus = "approved"
  /\ Len(applications[1].history) = 1
  /\ applications[1].officerAssigned = Null
  /\ Len(payments) = 1
  /\ notifications[2].message = "Payment successful for application: 4"

\* C17: in every reachable state an Application of the store has exactly
\* one Payment record if its paymentStatus is "completed" and none if it is
\* "pending", and every Payment record references exactly one Application
\* of the store and was paid by that Application's applicant.
C17_LedgerMatchesApplications ==
  /\ \A i \in DOMAIN applications :
       /\ applications[i].paymentStatus \in {"pending", "completed"}
       /\ Cardinality(PaymentsOf(payments, applications[i].id)) =
            IF applications[i].paymentStatus = "completed" THEN 1 ELSE 0
  /\ \A k \in DOMAIN payments :
       /\ Cardinality({i \in DOMAIN applications :
                         applications[i].id = payments[k].applicationId}) = 1
       /\ \A i \in DOMAIN applications :
            applications[i].id = payments[k].applicationId
            => payments[k].paidBy = applications[i].applicantEmail

\* the one application of the store is completed and the ledger holds its
\* one Payment, paid by the applicant
C17_Witness ==
  /\ Len(applications) = 1
  /\ applications[1].paymentStatus = "completed"
  /\ applications[1].history = <<>>
  /\ Len(payments) = 1
  /\ payments[1].applicationId = applications[1].id
  /\ payments[1].paidBy = applications[1].applicantEmail
  /\ res = Idle

\* C18: in every reachable state, every Application of the store names a
\* plot of the plot registry whose currentOwnerEmail is the Application's
\* applicantEmail, and its applicationType is mutation, correction or
\* conversion.
C18_ApplicationsWellFormed ==
  \A i \in DOMAIN applications :
    /\ \E k \in DOMAIN plots :
         /\ plots[k].plotId = applications[i].plotId
         /\ plots[k].currentOwnerEmail = applications[i].applicantEmail
    /\ applications[i].applicationType \in {"mutation", "correction", "conversion"}

\* the plot's owner was just accepted a correction after a conversion on the
\* seed plot
C18_Witness ==
  /\ Len(applications) = 2
  /\ applications[1].applicationType = "conversion"
  /\ applications[2].applicationType = "correction"
  /\ applications[1].plotId = "PLOT123"
  /\ applications[2].applicantEmail = plots[1].currentOwnerEmail
  /\ res.op = "submitApplication" /\ res.status = 201

\* C19: in every reachable state, every token issued by login carries the id
\* of a User of the store and every Application's applicantEmail is the
\* email of a User of the store, and no handler has answered 500 for want
\* of the record it looked up.
C19_CallersResolve ==
  /\ \A p \in tokens : FindUserById(p.id) # 0
  /\ \A i \in DOMAIN applications : FindUserByEmail(applications[i].applicantEmail) # 0
  /\ res.status # 500

\* C20: a status update by an officer or admin on an existing Application
\* answers 200 and sets the supplied status whether the Application is
\* pending or completed, and leaves its paymentStatus as it was; and a
\* well-formed payment call by the applicant on a pending Application
\* answers 200 and completes it whatever its applicationStatus and history.
C20_StatusNotGatedOnPayment ==
  [][ /\ res'.op = "updateApplicationStatus" =>
         \A auth \in Auths, appId \in ApplicationIdInputs, body \in StatusBodies :
           ( /\ IsOfficerOrAdmin(auth)
             /\ \E i \in DOMAIN applications : applications[i].id = appId
             /\ PostStatus(auth, appId, body) )
           => /\ res'.status = 200
              /\ \A i \in DOMAIN applications :
                   applications[i].id = appId
                   => /\ applications'[i].applicationStatus = body.status
                      /\ applications'[i].paymentStatus = applications[i].paymentStatus
      /\ res'.op = "initiatePayment" =>
         \A auth \in Auths, body \in PaymentBodies :
           ( /\ IsCitizen(auth)
             /\ body.amount.type = "number"
             /\ \E i \in DOMAIN applications :
                  /\ applications[i].id = body.applicationId
                  /\ applications[i].applicantEmail = auth.payload.email
                  /\ applications[i].paymentStatus = "pending"
             /\ PostPayment(auth, body) )
           => /\ res'.status = 200
              /\ \A i \in DOMAIN applications :
                   applications[i].id = body.applicationId
                   => /\ applications'[i].paymentStatus = "completed"
                      /\ applications'[i].applicationStatus = applications[i].applicationStatus
                      /\ applications'[i].history = applications[i].history
    ]_vars

\* an application was just approved while its payment is still pending and
\* the ledger is empty
C20_Witness ==
  /\ res.op = "updateApplicationStatus" /\ res.status = 200
  /\ res.data.applicationStatus = "approved"
  /\ res.data.paymentStatus = "pending"
  /\ \E i \in DOMAIN applications : applications[i] = res.data
  /\ payments = <<>>

====
